---------------------------- MODULE Spec2Model ----------------------------
(***************************************************************************)
(* Dual-stack database connectivity diagnostic service.                    *)
(*                                                                         *)
(* The repository holds two programs with the same HTTP surface:           *)
(*   - the pool variant     (src/app.js): resolves the endpoint once at    *)
(*     startup, builds one mysql pool per address family, and every probe  *)
(*     borrows a connection from its family's pool;                        *)
(*   - the one-shot variant (src/unnamed/part_000): resolves the endpoint  *)
(*     on every request, checks raw socket reachability, and opens a fresh *)
(*     connection per probe.                                               *)
(* `variant` says which of the two programs a behaviour runs.              *)
(*                                                                         *)
(* Node runs every callback to completion, and the promise continuations   *)
(* it triggers run before the next I/O callback.  One action is therefore  *)
(* one I/O completion together with every continuation it triggers: a      *)
(* probe callback that settles testConnection's promise also runs the      *)
(* awaiting request handler.  The order of the calls made inside one       *)
(* callback is kept in each probe's `log`.                                 *)
(***************************************************************************)
EXTENDS Integers, Sequences, FiniteSets, Bags, TLC

VARIABLES
    variant,               \* "pool" (src/app.js) or "oneshot" (src/unnamed/part_000)
    proc,                  \* process phase
    exitCode,              \* argument of process.exit, NoExit while running
    startup,               \* pool variant: the startup resolution's lookups
    ipv4Pool,              \* src/app.js:19
    ipv6Pool,              \* src/app.js:20
    resolveHostnameCalls,  \* calls of resolveHostname made by the process
    createPoolCalls,       \* calls of createPool that returned a pool
    req,                   \* the HTTP requests received, a bag
    resolver               \* one call of resolveHostname on given DNS answers

vars == <<variant, proc, exitCode, startup, ipv4Pool, ipv6Pool,
          resolveHostnameCalls, createPoolCalls, req, resolver>>

---------------------------------------------------------------------------
(* Bounds of the model *)

(* Requests received in a run. *)
MaxRequests == 2

(* One-shot variant: test requests among them.  Requests of the one-shot   *)
(* variant share no state.                                                 *)
MaxOneShotTests == 1

(* Records a DNS answer holds at most. *)
MaxRecords == 2

(* Program constants *)

connectionLimit == 10

(* JavaScript's undefined, as an address: array[0] of an empty array. *)
Undefined == 0

NoExit == -1

Variants == {"pool", "oneshot"}
Families == {"IPv4", "IPv6"}
TestKinds == {"ipv4", "ipv6", "dualstack"}
Kinds == {"health"} \cup TestKinds

(* The address families a test endpoint probes. *)
ProbedFamilies(kind) ==
    CASE kind = "ipv4" -> {"IPv4"}
      [] kind = "ipv6" -> {"IPv6"}
      [] kind = "dualstack" -> Families
      [] OTHER -> {}

Count(s, e) == Cardinality({i \in DOMAIN s : s[i] = e})

(* Position of the first e in s, 0 when s holds none. *)
IndexOf(s, e) ==
    IF \E i \in DOMAIN s : s[i] = e
    THEN CHOOSE i \in DOMAIN s : s[i] = e /\ \A j \in DOMAIN s : s[j] = e => i <= j
    ELSE 0

---------------------------------------------------------------------------
(* DNS.  A lookup (dns.resolve4, dns.resolve6) either rejects (ENOTFOUND,  *)
(* ENODATA, ...) or yields a list of records.  Addresses are numbered      *)
(* within their family.                                                    *)

LookupIdle == [st |-> "idle", recs |-> <<>>]
LookupPending == [st |-> "pending", recs |-> <<>>]
LookupError == [st |-> "err", recs |-> <<>>]
LookupOk(recs) == [st |-> "ok", recs |-> recs]

(* A settled lookup whose value nothing holds any more. *)
LookupGone == [st |-> "gone", recs |-> <<>>]

(* Every answer of at most MaxRecords records. *)
AllLookupOutcomes ==
    {LookupError} \cup
    UNION {{LookupOk(recs) : recs \in [1..n -> 1..MaxRecords]} : n \in 0..MaxRecords}

(* The answers whose i-th record is address i: one answer per length. *)
LookupOutcomes ==
    {LookupError} \cup {LookupOk([i \in 1..n |-> i]) : n \in 0..MaxRecords}

(* Whether a settled lookup yielded an address. *)
YieldsAddress(l) == l.st = "ok" /\ Len(l.recs) > 0

(* Mutant of First: the last record instead of the first. *)
FirstLast(recs) == IF Len(recs) = 0 THEN Undefined ELSE recs[Len(recs)]

(* array[0]: the first element, undefined for an empty array. *)
First(recs) == IF Len(recs) = 0 THEN Undefined ELSE recs[1]

NoAddresses == [ipv4 |-> Undefined, ipv6 |-> Undefined]
AddressOf(a, f) == IF f = "IPv4" THEN a.ipv4 ELSE a.ipv6

Threw(msg) == [st |-> "threw", message |-> msg, addresses |-> NoAddresses]
Returned(a) == [st |-> "returned", message |-> "", addresses |-> a]
NotResolved == [st |-> "none", message |-> "", addresses |-> NoAddresses]
ResolvePending == [st |-> "pending", message |-> "", addresses |-> NoAddresses]

(* One-shot resolveHostname, as far as the settled lookups let it run:     *)
(* Promise.all of the two lookups, which rejects as soon as one lookup has *)
(* rejected whatever the state of the other, then the both-empty check.    *)
OneShotResolveHostname(l4, l6) ==
    IF l4.st = "err" \/ l6.st = "err" THEN Threw("dns error")
    ELSE IF l4.st = "ok" /\ l6.st = "ok"
         THEN IF Len(l4.recs) = 0 /\ Len(l6.recs) = 0
              THEN Threw("No IP addresses resolved")
              ELSE Returned([ipv4 |-> First(l4.recs), ipv6 |-> First(l6.recs)])
         ELSE ResolvePending

(* Pool resolveHostname, as far as the settled lookups let it run:         *)
(* resolve4 is awaited, then resolve6 is issued and awaited; a rejection   *)
(* is rethrown; there is no empty check.                                   *)
PoolResolveHostname(l4, l6) ==
    IF l4.st = "err" THEN Threw("dns error")
    ELSE IF l4.st = "ok" /\ l6.st = "err" THEN Threw("dns error")
    ELSE IF l4.st = "ok" /\ l6.st = "ok"
         THEN Returned([ipv4 |-> First(l4.recs), ipv6 |-> First(l6.recs)])
         ELSE ResolvePending

ResolveHostname(v, l4, l6) ==
    IF v = "pool" THEN PoolResolveHostname(l4, l6)
    ELSE OneShotResolveHostname(l4, l6)

---------------------------------------------------------------------------
(* Probes: one call of testConnection. *)

NoData == "none"
Rows == "rows"
NoResult == [tag |-> "absent", error |-> "", data |-> NoData]

(* {success: true, data: {test, connectionInfo}} *)
Success == [tag |-> "success", error |-> "", data |-> Rows]

(* {success: false, error: message, ...} *)
Failure(msg) == [tag |-> "failure", error |-> msg, data |-> NoData]

NoHost == [addr |-> Undefined, brackets |-> FALSE]

IdleProbe ==
    [pc |-> "idle", promise |-> "none", result |-> NoResult, log |-> <<>>,
     conn |-> "none", host |-> NoHost, io |-> <<>>]

(* The I/O completions a probe has seen: <<operation, outcome>>. *)
Observe(p, outcome) == [p EXCEPT !.io = Append(@, <<p.pc, outcome>>)]
Outcome(ok) == IF ok THEN "ok" ELSE "fail"

Call(p, ev) == [p EXCEPT !.log = Append(@, ev)]

(* The promise of testConnection is settled by the first resolve or reject; *)
(* a later one changes nothing.                                             *)
Resolve(p, result) ==
    IF p.promise = "pending"
    THEN [Call(p, "resolve") EXCEPT !.promise = "fulfilled", !.result = result,
                                    !.pc = "done"]
    ELSE [Call(p, "resolve") EXCEPT !.pc = "done"]

Reject(p, msg) ==
    IF p.promise = "pending"
    THEN [Call(p, "reject") EXCEPT !.promise = "rejected",
                                   !.result = Failure(msg), !.pc = "done"]
    ELSE [Call(p, "reject") EXCEPT !.pc = "done"]

(* connection.release(): the connection goes back to its pool. *)
Release(p) == [Call(p, "release") EXCEPT !.conn = "released"]

(* Pool variant, testConnection: pool.getConnection is issued. *)
PoolStart(p) ==
    [Call(p, "getConnection") EXCEPT !.pc = "getConnection", !.promise = "pending"]

(* Callback of pool.getConnection. *)
PoolOnGetConnection(p, ok) ==
    IF ~ok
    THEN Resolve(p, Failure("getConnection"))
    ELSE [Call([p EXCEPT !.conn = "held"], "query1") EXCEPT !.pc = "query1"]

(* Mutant of PoolOnQuery1: the error path forgets connection.release(). *)
PoolOnQuery1NoRelease(p, ok) ==
    IF ~ok
    THEN Resolve(p, Failure("query1"))
    ELSE [Call(p, "query2") EXCEPT !.pc = "query2"]

(* Callback of 'SELECT 1 as test'. *)
PoolOnQuery1(p, ok) ==
    IF ~ok
    THEN Resolve(Release(p), Failure("query1"))
    ELSE [Call(p, "query2") EXCEPT !.pc = "query2"]

(* Callback of 'SELECT @@hostname, @@port, DATABASE()'. *)
PoolOnQuery2(p, ok) ==
    IF ~ok
    THEN Resolve(Release(p), Failure("query2"))
    ELSE Resolve(Release(p), Success)

(* One-shot variant, testConnection up to its first await: the connection  *)
(* config is built (an IPv6 host is bracket-wrapped) and                   *)
(* testNetworkConnectivity connects a socket to the bare address.          *)
ConfigHost(a, version) == [addr |-> a, brackets |-> version = "IPv6"]

OneShotStart(p, a, version) ==
    [Call(p, "socket.connect") EXCEPT !.pc = "socket", !.promise = "pending",
                                      !.host = ConfigHost(a, version)]

(* Mutant of Catch: the error is rethrown. *)
CatchRethrow(p, msg) == Reject(p, msg)

(* The catch block of testConnection: the error becomes the returned value. *)
Catch(p, msg) == Resolve(p, Failure(msg))

SocketEvents == {"connect", "timeout", "error"}

(* Mutant of OneShotOnSocket: the database connection is attempted         *)
(* whatever the socket check said.                                         *)
OneShotOnSocketIgnored(p, ev) ==
    CASE ev = "connect" ->
           [Call(Call(p, "socket.end"), "createConnection")
               EXCEPT !.pc = "createConnection"]
      [] ev = "timeout" ->
           [Call(Call(p, "socket.destroy"), "createConnection")
               EXCEPT !.pc = "createConnection"]
      [] OTHER -> [Call(p, "createConnection") EXCEPT !.pc = "createConnection"]

(* testNetworkConnectivity settles; on 'connect' testConnection goes on to *)
(* mysql.createConnection.                                                 *)
OneShotOnSocket(p, ev) ==
    CASE ev = "connect" ->
           [Call(Call(p, "socket.end"), "createConnection")
               EXCEPT !.pc = "createConnection"]
      [] ev = "timeout" -> Catch(Call(p, "socket.destroy"), "Connection timed out")
      [] OTHER -> Catch(p, "socket error")

(* Mutant of OneShotOnCreateConnection: a failed attempt is made once more. *)
OneShotOnCreateConnectionRetry(p, ok) ==
    IF ~ok
    THEN IF Count(p.log, "createConnection") < 2
         THEN Call(p, "createConnection")
         ELSE Catch(p, "createConnection")
    ELSE [Call([p EXCEPT !.conn = "open"], "execute1") EXCEPT !.pc = "execute1"]

(* mysql.createConnection settles. *)
OneShotOnCreateConnection(p, ok) ==
    IF ~ok
    THEN Catch(p, "createConnection")
    ELSE [Call([p EXCEPT !.conn = "open"], "execute1") EXCEPT !.pc = "execute1"]

(* Mutant of OneShotOnExecute1: the second query is issued whatever the    *)
(* first one's outcome.                                                    *)
OneShotOnExecute1Ignored(p, ok) ==
    [Call(p, "execute2") EXCEPT !.pc = "execute2"]

(* connection.execute('SELECT 1 as test') settles. *)
OneShotOnExecute1(p, ok) ==
    IF ~ok
    THEN Catch(p, "execute1")
    ELSE [Call(p, "execute2") EXCEPT !.pc = "execute2"]

(* connection.execute('SELECT @@hostname, @@port, DATABASE()') settles;    *)
(* on success connection.end() is called and awaited.                      *)
OneShotOnExecute2(p, ok) ==
    IF ~ok
    THEN Catch(p, "execute2")
    ELSE [Call(p, "end") EXCEPT !.pc = "end", !.conn = "closed"]

(* `await connection.end()` settles: the success value is returned, or the *)
(* catch block runs.                                                      *)
OneShotOnEnd(p, ok) ==
    IF ~ok
    THEN Catch(p, "end")
    ELSE Resolve(p, Success)

---------------------------------------------------------------------------
(* Requests and responses. *)

NoResults == [f \in Families |-> NoResult]

NoResponse ==
    [sent |-> FALSE, http |-> 0, status |-> "absent", error |-> "",
     hasResults |-> FALSE, testResult |-> NoResults, addresses |-> NoAddresses]

(* Mutant of HealthResponse: health reported as an error. *)
HealthResponseUnavailable ==
    [NoResponse EXCEPT !.sent = TRUE, !.http = 500, !.status = "unhealthy"]

(* res.json({status: 'healthy', timestamp}) *)
HealthResponse ==
    [NoResponse EXCEPT !.sent = TRUE, !.http = 200, !.status = "healthy"]

(* Mutant of TestResponse: the body carries an overall status. *)
TestResponseWithStatus(results, addresses) ==
    [NoResponse EXCEPT !.sent = TRUE, !.http = 200, !.hasResults = TRUE,
                       !.testResult = results, !.addresses = addresses,
                       !.status = IF \A f \in Families : results[f].tag # "failure"
                                  THEN "success" ELSE "failed"]

(* res.json({timestamp, testResult(s), ...}): the body holds the probes'   *)
(* results and, in the one-shot variant, the resolved addresses; it has no *)
(* status field.                                                           *)
TestResponse(results, addresses) ==
    [NoResponse EXCEPT !.sent = TRUE, !.http = 200, !.hasResults = TRUE,
                       !.testResult = results, !.addresses = addresses]

(* res.status(500).json({error, message, timestamp}) *)
ErrorResponse(msg) ==
    [NoResponse EXCEPT !.sent = TRUE, !.http = 500, !.error = msg]

NewRequest(kind) ==
    [kind |-> kind, pc |-> "received", dns4 |-> LookupIdle, dns6 |-> LookupIdle,
     resolution |-> NotResolved, probe |-> [f \in Families |-> IdleProbe],
     response |-> NoResponse]

(* Mutant of PromiseAll: settled as soon as one probe is (Promise.race). *)
PromiseRace(rq) ==
    LET fs == ProbedFamilies(rq.kind) IN
    IF \E f \in fs : rq.probe[f].promise = "rejected" THEN "rejected"
    ELSE IF \E f \in fs : rq.probe[f].promise = "fulfilled" THEN "fulfilled"
    ELSE "pending"

(* Promise.all over the probes of a request: rejected as soon as one is    *)
(* rejected, fulfilled once all are fulfilled.                             *)
PromiseAll(rq) ==
    LET fs == ProbedFamilies(rq.kind) IN
    IF \E f \in fs : rq.probe[f].promise = "rejected" THEN "rejected"
    ELSE IF \A f \in fs : rq.probe[f].promise = "fulfilled" THEN "fulfilled"
    ELSE "pending"

(* Mutant of Continue: each family's slot gets the other probe's result. *)
ContinueSwapped(rq) ==
    IF rq.pc # "probing" THEN rq
    ELSE CASE PromiseAll(rq) = "fulfilled" ->
                [rq EXCEPT !.pc = "responded",
                           !.response =
                               TestResponse(
                                   [f \in Families |->
                                       IF f \in ProbedFamilies(rq.kind)
                                       THEN rq.probe[CHOOSE g \in ProbedFamilies(rq.kind) :
                                                        g # f \/ ProbedFamilies(rq.kind) = {f}].result
                                       ELSE NoResult],
                                   rq.resolution.addresses)]
           [] PromiseAll(rq) = "rejected" ->
                [rq EXCEPT !.pc = "responded",
                           !.response = ErrorResponse("test failed")]
           [] OTHER -> rq

(* The handler after `await testConnection(...)` or `await Promise.all`:   *)
(* it answers once, with the results, or from its catch block.             *)
Continue(rq) ==
    IF rq.pc # "probing" THEN rq
    ELSE CASE PromiseAll(rq) = "fulfilled" ->
                [rq EXCEPT !.pc = "responded",
                           !.response =
                               TestResponse(
                                   [f \in Families |->
                                       IF f \in ProbedFamilies(rq.kind)
                                       THEN rq.probe[f].result ELSE NoResult],
                                   rq.resolution.addresses)]
           [] PromiseAll(rq) = "rejected" ->
                [rq EXCEPT !.pc = "responded",
                           !.response = ErrorResponse("test failed")]
           [] OTHER -> rq

---------------------------------------------------------------------------
(* Pools (pool variant). *)

NullPool ==
    [null |-> TRUE, host |-> NoHost, family6 |-> FALSE, borrowed |-> 0,
     ended |-> FALSE]

(* host.replace(/[\[\]]/g, ''): the brackets are dropped. *)
StripBrackets(h) == [h EXCEPT !.brackets = FALSE]

(* Mutant of CreatePool: an undefined IPv6 host yields no pool and no      *)
(* exception.                                                              *)
CreatePoolQuiet(a, version) ==
    IF version = "IPv6"
    THEN IF a = Undefined
         THEN [threw |-> FALSE, pool |-> NullPool]
         ELSE [threw |-> FALSE,
               pool |-> [NullPool EXCEPT
                            !.null = FALSE, !.family6 = TRUE,
                            !.host = StripBrackets([addr |-> a, brackets |-> FALSE])]]
    ELSE [threw |-> FALSE,
          pool |-> [NullPool EXCEPT !.null = FALSE,
                                    !.host = [addr |-> a, brackets |-> FALSE]]]

(* createPool(host, version): for 'IPv6' host.replace is called, which     *)
(* throws a TypeError on an undefined host.                                *)
CreatePool(a, version) ==
    IF version = "IPv6"
    THEN IF a = Undefined
         THEN [threw |-> TRUE, pool |-> NullPool]
         ELSE [threw |-> FALSE,
               pool |-> [NullPool EXCEPT
                            !.null = FALSE, !.family6 = TRUE,
                            !.host = StripBrackets([addr |-> a, brackets |-> FALSE])]]
    ELSE [threw |-> FALSE,
          pool |-> [NullPool EXCEPT !.null = FALSE,
                                    !.host = [addr |-> a, brackets |-> FALSE]]]

PoolOf(f) == IF f = "IPv4" THEN ipv4Pool ELSE ipv6Pool

(* Mutant of EndPool: the pool is left open. *)
EndPoolSkipped(pool) == pool

(* pool?.end() *)
EndPool(pool) == IF pool.null THEN pool ELSE [pool EXCEPT !.ended = TRUE]

NoStartup == [dns4 |-> LookupIdle, dns6 |-> LookupIdle, resolution |-> NotResolved]

NoResolver ==
    [l4 |-> LookupIdle, l6 |-> LookupIdle, seen4 |-> FALSE, seen6 |-> FALSE,
     resolution |-> NotResolved]

---------------------------------------------------------------------------
(* The state after the module has been loaded.  Pool variant: initialize() *)
(* has called initializePools, which has called resolveHostname, which is  *)
(* awaiting dns.resolve4; nothing listens yet.  One-shot variant:          *)
(* app.listen has been called.                                             *)

InitServer ==
    /\ variant \in Variants
    /\ proc = IF variant = "pool" THEN "resolve4" ELSE "listening"
    /\ exitCode = NoExit
    /\ startup = IF variant = "pool"
                 THEN [NoStartup EXCEPT !.dns4 = LookupPending,
                                        !.resolution = ResolvePending]
                 ELSE NoStartup
    /\ ipv4Pool = NullPool
    /\ ipv6Pool = NullPool
    /\ resolveHostnameCalls = IF variant = "pool" THEN 1 ELSE 0
    /\ createPoolCalls = 0
    /\ req = EmptyBag

Init ==
    /\ InitServer
    /\ resolver = NoResolver

Running == proc # "exited"
Listening == proc = "listening"

---------------------------------------------------------------------------
(* Pool variant: startup and shutdown. *)

(* dns.resolve4 settles during startup: resolveHostname issues resolve6,   *)
(* or rethrows, initializePools rethrows, and initialize exits with 1.     *)
StartupResolve4(out) ==
    /\ variant = "pool"
    /\ proc = "resolve4"
    /\ LET res == PoolResolveHostname(out, LookupPending) IN
       IF res.st = "threw"
       THEN /\ startup' = [startup EXCEPT !.dns4 = LookupGone, !.resolution = res]
            /\ proc' = "exited"
            /\ exitCode' = 1
       ELSE /\ startup' = [startup EXCEPT !.dns4 = out, !.dns6 = LookupPending]
            /\ proc' = "resolve6"
            /\ exitCode' = exitCode
    /\ UNCHANGED <<variant, ipv4Pool, ipv6Pool, resolveHostnameCalls,
                   createPoolCalls, req, resolver>>

(* dns.resolve6 settles during startup: resolveHostname returns or         *)
(* rethrows; initializePools assigns ipv4Pool, then ipv6Pool; initialize   *)
(* calls app.listen, or exits with 1 when anything threw.                  *)
StartupResolve6(out) ==
    /\ variant = "pool"
    /\ proc = "resolve6"
    /\ LET res == PoolResolveHostname(startup.dns4, out)
           p4 == CreatePool(res.addresses.ipv4, "IPv4")
           p6 == CreatePool(res.addresses.ipv6, "IPv6")
       IN
       /\ startup' = [startup EXCEPT !.dns4 = LookupGone, !.dns6 = LookupGone,
                                     !.resolution = res]
       /\ IF res.st = "threw"
          THEN /\ UNCHANGED <<ipv4Pool, ipv6Pool, createPoolCalls>>
               /\ proc' = "exited"
               /\ exitCode' = 1
          ELSE /\ ipv4Pool' = p4.pool
               /\ ipv6Pool' = p6.pool
               /\ createPoolCalls' = createPoolCalls + 1 + (IF p6.threw THEN 0 ELSE 1)
               /\ proc' = IF p6.threw THEN "exited" ELSE "listening"
               /\ exitCode' = IF p6.threw THEN 1 ELSE exitCode
    /\ UNCHANGED <<variant, resolveHostnameCalls, req, resolver>>

(* process.on('SIGINT'): both pools are ended, then process.exit(). *)
Sigint ==
    /\ variant = "pool"
    /\ Running
    /\ ipv4Pool' = EndPool(ipv4Pool)
    /\ ipv6Pool' = EndPool(ipv6Pool)
    /\ proc' = "exited"
    /\ exitCode' = 0
    /\ UNCHANGED <<variant, startup, resolveHostnameCalls, createPoolCalls, req,
                   resolver>>

---------------------------------------------------------------------------
(* Requests: both variants.  A request has no identity beyond its state,   *)
(* so the requests received so far are kept as a bag.                      *)

Requests == BagToSet(req)
TestsReceived ==
    BagCardinality([rq \in {q \in Requests : q.kind \in TestKinds} |-> req[rq]])

(* Room for one more request of this kind within the bounds. *)
CanReceive(kind) ==
    /\ BagCardinality(req) < MaxRequests
    /\ (variant = "oneshot" /\ kind \in TestKinds) => TestsReceived < MaxOneShotTests

Received(rq) == req (+) SetToBag({rq})
Replaced(rq, new) == (req (-) SetToBag({rq})) (+) SetToBag({new})

(* Nothing listens (not yet, or not any more): the connection is refused. *)
Refuse(kind) ==
    /\ CanReceive(kind)
    /\ ~Listening
    /\ req' = Received([NewRequest(kind) EXCEPT !.pc = "refused"])
    /\ UNCHANGED <<variant, proc, exitCode, startup, ipv4Pool, ipv6Pool,
                   resolveHostnameCalls, createPoolCalls, resolver>>

(* GET /health *)
Health ==
    /\ CanReceive("health")
    /\ Listening
    /\ req' = Received([NewRequest("health") EXCEPT !.pc = "responded",
                                                    !.response = HealthResponse])
    /\ UNCHANGED <<variant, proc, exitCode, startup, ipv4Pool, ipv6Pool,
                   resolveHostnameCalls, createPoolCalls, resolver>>

---------------------------------------------------------------------------
(* Pool variant: the test endpoints. *)

(* The handler up to its await: the pool check, then testConnection on     *)
(* each probed family's pool.                                              *)
PoolHandler(rq, pool4, pool6) ==
    IF \E f \in ProbedFamilies(rq.kind) : (IF f = "IPv4" THEN pool4 ELSE pool6).null
    THEN [rq EXCEPT !.pc = "responded",
                    !.response = ErrorResponse("pool not initialized")]
    ELSE [rq EXCEPT !.pc = "probing",
                    !.probe = [f \in Families |->
                                  IF f \in ProbedFamilies(rq.kind)
                                  THEN PoolStart(
                                          [@[f] EXCEPT !.host =
                                              (IF f = "IPv4" THEN pool4 ELSE pool6).host])
                                  ELSE @[f]]]

(* GET /test-connections/ipv4, /ipv6, /dualstack *)
PoolTest(kind) ==
    /\ variant = "pool"
    /\ CanReceive(kind)
    /\ Listening
    /\ req' = Received(PoolHandler(NewRequest(kind), ipv4Pool, ipv6Pool))
    /\ UNCHANGED <<variant, proc, exitCode, startup, ipv4Pool, ipv6Pool,
                   resolveHostnameCalls, createPoolCalls, resolver>>

(* The pool after a probe callback: a connection handed out is borrowed,   *)
(* each release() in the callback gives one back.                          *)
PoolAfter(pool, old, new) ==
    [pool EXCEPT !.borrowed =
        @ + (IF old.conn # "held" /\ new.conn = "held" THEN 1 ELSE 0)
          - (Count(new.log, "release") - Count(old.log, "release"))]

PoolStep(rq, f, new) ==
    /\ req' = Replaced(rq, Continue([rq EXCEPT !.probe[f] = new]))
    /\ ipv4Pool' = IF f = "IPv4" THEN PoolAfter(ipv4Pool, rq.probe[f], new)
                   ELSE ipv4Pool
    /\ ipv6Pool' = IF f = "IPv6" THEN PoolAfter(ipv6Pool, rq.probe[f], new)
                   ELSE ipv6Pool
    /\ UNCHANGED <<variant, proc, exitCode, startup, resolveHostnameCalls,
                   createPoolCalls, resolver>>

(* pool.getConnection calls back; a connection is handed out only while    *)
(* fewer than connectionLimit are borrowed.                                *)
GetConnectionDone(rq, f, ok) ==
    /\ variant = "pool"
    /\ Running
    /\ rq.probe[f].pc = "getConnection"
    /\ ok => PoolOf(f).borrowed < connectionLimit
    /\ PoolStep(rq, f, PoolOnGetConnection(Observe(rq.probe[f], Outcome(ok)), ok))

Query1Done(rq, f, ok) ==
    /\ variant = "pool"
    /\ Running
    /\ rq.probe[f].pc = "query1"
    /\ PoolStep(rq, f, PoolOnQuery1(Observe(rq.probe[f], Outcome(ok)), ok))

Query2Done(rq, f, ok) ==
    /\ variant = "pool"
    /\ Running
    /\ rq.probe[f].pc = "query2"
    /\ PoolStep(rq, f, PoolOnQuery2(Observe(rq.probe[f], Outcome(ok)), ok))

---------------------------------------------------------------------------
(* One-shot variant: the test endpoints. *)

(* GET /test-connections/ipv4, /ipv6, /dualstack: the handler up to its    *)
(* first await: resolveHostname issues both lookups.                       *)
OneShotTest(kind) ==
    /\ variant = "oneshot"
    /\ CanReceive(kind)
    /\ Listening
    /\ req' = Received([NewRequest(kind) EXCEPT !.pc = "resolving",
                                                !.dns4 = LookupPending,
                                                !.dns6 = LookupPending,
                                                !.resolution = ResolvePending])
    /\ resolveHostnameCalls' = resolveHostnameCalls + 1
    /\ UNCHANGED <<variant, proc, exitCode, startup, ipv4Pool, ipv6Pool,
                   createPoolCalls, resolver>>

(* Mutant of OneShotHandler: a missing address of a probed family is       *)
(* answered 500 although resolution returned.                              *)
OneShotHandlerNoAddress(rq, res) ==
    CASE res.st = "threw" ->
           [rq EXCEPT !.pc = "responded", !.resolution = res,
                      !.response = ErrorResponse(res.message)]
      [] res.st = "returned" /\ \E f \in ProbedFamilies(rq.kind) :
                                    AddressOf(res.addresses, f) = Undefined ->
           [rq EXCEPT !.pc = "responded", !.resolution = res,
                      !.response = ErrorResponse("no address")]
      [] res.st = "returned" ->
           [rq EXCEPT !.pc = "probing", !.resolution = res,
                      !.probe = [f \in Families |->
                                    IF f \in ProbedFamilies(rq.kind)
                                    THEN OneShotStart(@[f], AddressOf(res.addresses, f), f)
                                    ELSE @[f]]]
      [] OTHER -> rq

(* The handler after `await resolveHostname`: it answers 500 from its      *)
(* catch block, or calls testConnection for each probed family.            *)
OneShotHandler(rq, res) ==
    CASE res.st = "threw" ->
           [rq EXCEPT !.pc = "responded", !.resolution = res,
                      !.response = ErrorResponse(res.message)]
      [] res.st = "returned" ->
           [rq EXCEPT !.pc = "probing", !.resolution = res,
                      !.probe = [f \in Families |->
                                    IF f \in ProbedFamilies(rq.kind)
                                    THEN OneShotStart(@[f], AddressOf(res.addresses, f), f)
                                    ELSE @[f]]]
      [] OTHER -> rq

(* The lookups' values live in resolveHostname only while it runs. *)
Forget(l) == IF l.st \in {"ok", "err"} THEN LookupGone ELSE l

(* dns.resolve4 or dns.resolve6 of a request settles: resolveHostname goes *)
(* on if it still waits, and the handler after it.                         *)
LookupDone(rq, f, out) ==
    /\ variant = "oneshot"
    /\ Running
    /\ (IF f = "IPv4" THEN rq.dns4 ELSE rq.dns6).st = "pending"
    /\ LET got == IF f = "IPv4" THEN [rq EXCEPT !.dns4 = out]
                  ELSE [rq EXCEPT !.dns6 = out]
           res == OneShotResolveHostname(got.dns4, got.dns6)
           forgot == [got EXCEPT !.dns4 = Forget(@), !.dns6 = Forget(@)]
       IN req' = Replaced(rq,
                     IF got.pc = "resolving" /\ res.st = "pending" THEN got
                     ELSE IF got.pc = "resolving" THEN OneShotHandler(forgot, res)
                     ELSE forgot)
    /\ UNCHANGED <<variant, proc, exitCode, startup, ipv4Pool, ipv6Pool,
                   resolveHostnameCalls, createPoolCalls, resolver>>

OneShotStep(rq, f, new) ==
    /\ req' = Replaced(rq, Continue([rq EXCEPT !.probe[f] = new]))
    /\ UNCHANGED <<variant, proc, exitCode, startup, ipv4Pool, ipv6Pool,
                   resolveHostnameCalls, createPoolCalls, resolver>>

(* The socket of testNetworkConnectivity emits 'connect', 'timeout' or 'error'. *)
SocketDone(rq, f, ev) ==
    /\ variant = "oneshot"
    /\ Running
    /\ rq.probe[f].pc = "socket"
    /\ OneShotStep(rq, f, OneShotOnSocket(Observe(rq.probe[f], ev), ev))

CreateConnectionDone(rq, f, ok) ==
    /\ variant = "oneshot"
    /\ Running
    /\ rq.probe[f].pc = "createConnection"
    /\ OneShotStep(rq, f, OneShotOnCreateConnection(Observe(rq.probe[f], Outcome(ok)), ok))

Execute1Done(rq, f, ok) ==
    /\ variant = "oneshot"
    /\ Running
    /\ rq.probe[f].pc = "execute1"
    /\ OneShotStep(rq, f, OneShotOnExecute1(Observe(rq.probe[f], Outcome(ok)), ok))

Execute2Done(rq, f, ok) ==
    /\ variant = "oneshot"
    /\ Running
    /\ rq.probe[f].pc = "execute2"
    /\ OneShotStep(rq, f, OneShotOnExecute2(Observe(rq.probe[f], Outcome(ok)), ok))

EndDone(rq, f, ok) ==
    /\ variant = "oneshot"
    /\ Running
    /\ rq.probe[f].pc = "end"
    /\ OneShotStep(rq, f, OneShotOnEnd(Observe(rq.probe[f], Outcome(ok)), ok))

---------------------------------------------------------------------------

Next ==
    \/ \E out \in LookupOutcomes : StartupResolve4(out)
    \/ \E out \in LookupOutcomes : StartupResolve6(out)
    \/ Sigint
    \/ \E kind \in Kinds : Refuse(kind)
    \/ Health
    \/ \E kind \in TestKinds : PoolTest(kind)
    \/ \E rq \in Requests, f \in Families, ok \in BOOLEAN : GetConnectionDone(rq, f, ok)
    \/ \E rq \in Requests, f \in Families, ok \in BOOLEAN : Query1Done(rq, f, ok)
    \/ \E rq \in Requests, f \in Families, ok \in BOOLEAN : Query2Done(rq, f, ok)
    \/ \E kind \in TestKinds : OneShotTest(kind)
    \/ \E rq \in Requests, f \in Families, out \in LookupOutcomes : LookupDone(rq, f, out)
    \/ \E rq \in Requests, f \in Families, ev \in SocketEvents : SocketDone(rq, f, ev)
    \/ \E rq \in Requests, f \in Families, ok \in BOOLEAN : CreateConnectionDone(rq, f, ok)
    \/ \E rq \in Requests, f \in Families, ok \in BOOLEAN : Execute1Done(rq, f, ok)
    \/ \E rq \in Requests, f \in Families, ok \in BOOLEAN : Execute2Done(rq, f, ok)
    \/ \E rq \in Requests, f \in Families, ok \in BOOLEAN : EndDone(rq, f, ok)

Spec == Init /\ [][Next]_vars

---------------------------------------------------------------------------
(* resolveHostname as a function of the DNS answers: the answers are given *)
(* from the start, in `resolver`, and the lookups settle one at a time, in *)
(* either order for the one-shot variant (Promise.all), resolve4 first and *)
(* resolve6 only once resolve4 has been fulfilled for the pool variant.    *)

ResolverInit ==
    /\ InitServer
    /\ \E l4 \in AllLookupOutcomes, l6 \in AllLookupOutcomes :
          resolver = [NoResolver EXCEPT !.l4 = l4, !.l6 = l6,
                                        !.resolution = ResolvePending]

Visible(l, seen) == IF seen THEN l ELSE LookupPending

ResolverSettle(f) ==
    /\ IF f = "IPv4" THEN ~resolver.seen4 ELSE ~resolver.seen6
    /\ (variant = "pool" /\ f = "IPv6") =>
           (resolver.seen4 /\ resolver.l4.st = "ok")
    /\ LET s4 == resolver.seen4 \/ f = "IPv4"
           s6 == resolver.seen6 \/ f = "IPv6"
       IN resolver' =
             [resolver EXCEPT
                 !.seen4 = s4, !.seen6 = s6,
                 !.resolution =
                     IF @.st = "pending"
                     THEN ResolveHostname(variant, Visible(resolver.l4, s4),
                                          Visible(resolver.l6, s6))
                     ELSE @]
    /\ UNCHANGED <<variant, proc, exitCode, startup, ipv4Pool, ipv6Pool,
                   resolveHostnameCalls, createPoolCalls, req>>

ResolverNext == \E f \in Families : ResolverSettle(f)

ResolverSpec == ResolverInit /\ [][ResolverNext]_vars

---------------------------------------------------------------------------
(* Properties. *)

ProbeStarted(p) == p.pc # "idle"
ProbeSettled(p) == p.promise \in {"fulfilled", "rejected"}
Settlements(p) == Count(p.log, "resolve") + Count(p.log, "reject")

(* The I/O completions that let testConnection go on. *)
GoodOutcomes == {"ok", "connect"}
Saw(p, op, outcome) == \E i \in DOMAIN p.io : p.io[i] = <<op, outcome>>
FailedIo(p) == Len(p.io) > 0 /\ p.io[Len(p.io)][2] \notin GoodOutcomes

(* The message of the error an I/O completion carries. *)
ErrorMessage(entry) ==
    IF entry[2] = "timeout" THEN "Connection timed out"
    ELSE IF entry[1] = "socket" THEN "socket error"
    ELSE entry[1]

(* The handler got past the pool check (pool variant) or past resolution   *)
(* (one-shot variant): it has called testConnection.                       *)
PastCheck(rq) == \E f \in Families : ProbeStarted(rq.probe[f])

(* The connections of a family's pool that probes hold. *)
HeldFrom(f) ==
    BagCardinality([rq \in {q \in Requests : q.probe[f].conn = "held"} |-> req[rq]])

(* C1: pool variant: a probe whose getConnection yielded a connection has  *)
(* called connection.release() exactly once, before resolve, by the time   *)
(* its result is delivered, whichever path it took; a probe whose          *)
(* getConnection failed never calls release; each pool's borrowed count is *)
(* the number of probes holding one of its connections, so it is zero once *)
(* every probe has settled.                                                *)
C1_ReleasedExactlyOnce ==
    variant = "pool" =>
        /\ \A rq \in Requests : \A f \in ProbedFamilies(rq.kind) :
              LET p == rq.probe[f] IN
              /\ Count(p.log, "release") <= 1
              /\ ~Saw(p, "getConnection", "ok") => Count(p.log, "release") = 0
              /\ (Saw(p, "getConnection", "ok") /\ (ProbeSettled(p) \/ rq.response.sent)) =>
                    /\ Count(p.log, "release") = 1
                    /\ IndexOf(p.log, "release") < IndexOf(p.log, "resolve")
        /\ \A f \in Families :
              /\ PoolOf(f).borrowed = HeldFrom(f)
              /\ (\A rq \in Requests : ProbeStarted(rq.probe[f]) => ProbeSettled(rq.probe[f]))
                    => PoolOf(f).borrowed = 0

(* Two requests have probed IPv4 and both have settled, one after a failed *)
(* first query and one with success; nothing is borrowed.                  *)
C1_Witness ==
    /\ variant = "pool"
    /\ \E rq1, rq2 \in Requests :
          /\ Saw(rq1.probe["IPv4"], "query1", "fail")
          /\ rq1.response.sent
          /\ rq2.probe["IPv4"].result = Success
          /\ rq2.response.sent
    /\ \A rq \in Requests : \A f \in ProbedFamilies(rq.kind) : ProbeSettled(rq.probe[f])
    /\ ipv4Pool.borrowed = 0

(* C2: one-shot variant: a probe whose mysql.createConnection succeeded    *)
(* has called connection.end() exactly once before it returns, whichever   *)
(* path it took.                                                           *)
C2_ClosedExactlyOnce ==
    variant = "oneshot" =>
        \A rq \in Requests : \A f \in ProbedFamilies(rq.kind) :
            LET p == rq.probe[f] IN
            (Saw(p, "createConnection", "ok") /\ ProbeSettled(p)) =>
                /\ Count(p.log, "end") = 1
                /\ IndexOf(p.log, "end") < IndexOf(p.log, "resolve")

(* C3: testConnection never rejects and settles exactly once: at every     *)
(* failure point it is fulfilled with the Failure value carrying the       *)
(* error's message, and with the Success value when nothing failed.        *)
C3_NeverRejects ==
    \A rq \in Requests : \A f \in ProbedFamilies(rq.kind) :
        LET p == rq.probe[f] IN
        /\ p.promise # "rejected"
        /\ Settlements(p) <= 1
        /\ FailedIo(p) =>
              /\ p.pc = "done"
              /\ p.promise = "fulfilled"
              /\ p.result = Failure(ErrorMessage(p.io[Len(p.io)]))
        /\ p.pc = "done" =>
              /\ p.promise = "fulfilled"
              /\ Settlements(p) = 1
              /\ ~FailedIo(p) => p.result = Success

(* A one-shot probe whose second query failed has been fulfilled with the  *)
(* Failure value.                                                          *)
C3_Witness ==
    \E rq \in Requests : \E f \in ProbedFamilies(rq.kind) :
        /\ Saw(rq.probe[f], "execute2", "fail")
        /\ rq.probe[f].promise = "fulfilled"
        /\ rq.probe[f].result = Failure("execute2")

(* C4: a dualstack response sent after the handler got past the pool check *)
(* or resolution is sent only once both probes have settled, and its       *)
(* testResults holds both probes' results.                                 *)
C4_BothResults ==
    \A rq \in Requests :
        (rq.kind = "dualstack" /\ PastCheck(rq) /\ rq.response.sent) =>
            /\ rq.response.hasResults
            /\ \A f \in Families :
                  /\ ProbeSettled(rq.probe[f])
                  /\ rq.response.testResult[f] = rq.probe[f].result
                  /\ rq.response.testResult[f].tag \in {"success", "failure"}

(* A dualstack response with a failed IPv4 probe and a successful IPv6 probe. *)
C4_Witness ==
    \E rq \in Requests :
        /\ rq.kind = "dualstack"
        /\ rq.response.sent
        /\ rq.response.testResult["IPv4"].tag = "failure"
        /\ rq.response.testResult["IPv6"].tag = "success"

BothSucceeded(rq) == \A f \in Families : rq.probe[f].result.tag = "success"

C7_AlwaysAnswered ==
    \A rq \in Requests :
        rq.kind = "health" =>
            /\ rq.pc = "responded"
            /\ rq.response.http = 200
            /\ rq.response.status = "healthy"

(* C7, amended: a /health request that arrives while the process listens   *)
(* is answered 200 healthy at once, whatever the state of DNS and of the   *)
(* probes; the one-shot variant always listens; the pool variant listens   *)
(* only between a successful startup and its exit, and a /health request   *)
(* that arrives outside that time is refused.                              *)
C7_HealthWhileListening ==
    [][\A rq \in BagToSet(req') :
          (rq.kind = "health" /\ CopiesIn(rq, req') > CopiesIn(rq, req)) =>
              IF Listening
              THEN /\ rq.pc = "responded"
                   /\ rq.response.http = 200
                   /\ rq.response.status = "healthy"
              ELSE rq.pc = "refused" /\ variant = "pool"]_vars

(* /health has been answered healthy next to a request whose resolution    *)
(* threw.                                                                  *)
C7_Witness ==
    /\ \E rq \in Requests :
          /\ rq.kind = "health"
          /\ rq.response.http = 200
          /\ rq.response.status = "healthy"
    /\ \E rq \in Requests : rq.resolution.st = "threw"

(* C8: resolveHostname throws only if neither lookup yields an address;    *)
(* when exactly one does, it returns that address, the other family        *)
(* undefined.                                                              *)
C8_FailsOnlyIfBothEmpty ==
    /\ resolver.resolution.st = "threw" =>
          ~YieldsAddress(resolver.l4) /\ ~YieldsAddress(resolver.l6)
    /\ (resolver.seen4 /\ resolver.seen6
        /\ YieldsAddress(resolver.l4) # YieldsAddress(resolver.l6)) =>
          /\ resolver.resolution.st = "returned"
          /\ resolver.resolution.addresses =
                [ipv4 |-> First(resolver.l4.recs), ipv6 |-> First(resolver.l6.recs)]

(* C9: when both lookups yield records, resolveHostname does not throw,    *)
(* has returned once both have settled, and returns for each family        *)
(* exactly the first record of its answer.                                 *)
C9_FirstOfEach ==
    (YieldsAddress(resolver.l4) /\ YieldsAddress(resolver.l6)) =>
        /\ resolver.resolution.st # "threw"
        /\ (resolver.seen4 /\ resolver.seen6) => resolver.resolution.st = "returned"
        /\ resolver.resolution.st = "returned" =>
              /\ resolver.resolution.addresses.ipv4 = resolver.l4.recs[1]
              /\ resolver.resolution.addresses.ipv6 = resolver.l6.recs[1]
              /\ resolver.resolution.addresses.ipv4 # Undefined
              /\ resolver.resolution.addresses.ipv6 # Undefined

(* resolveHostname has returned on answers of two records each, whose      *)
(* first and last records differ.                                          *)
C9_Witness ==
    /\ resolver.resolution.st = "returned"
    /\ resolver.l4 = LookupOk(<<2, 1>>)
    /\ resolver.l6 = LookupOk(<<1, 2>>)
    /\ resolver.resolution.addresses = [ipv4 |-> 2, ipv6 |-> 1]

(* What a request handler may read of a pool variable but not assign. *)
PoolIdentity(pool) == [null |-> pool.null, host |-> pool.host, family6 |-> pool.family6]

(* C10: pool variant: resolveHostname is called once and each pool is      *)
(* created once, at startup; once the server listens nothing resolves the  *)
(* hostname or assigns ipv4Pool or ipv6Pool again; after SIGINT both pools *)
(* have been ended when the process exits.                                 *)
C10_OnceAtStartup ==
    /\ [](variant = "pool" =>
            /\ resolveHostnameCalls = 1
            /\ createPoolCalls <= 2
            /\ Listening => (createPoolCalls = 2 /\ ~ipv4Pool.null /\ ~ipv6Pool.null)
            /\ (proc = "exited" /\ exitCode = 0) =>
                  \A f \in Families : PoolOf(f).null \/ PoolOf(f).ended
            /\ (proc = "exited" /\ exitCode = 0 /\ createPoolCalls = 2) =>
                  (ipv4Pool.ended /\ ipv6Pool.ended))
    /\ [][(variant = "pool" /\ Listening) =>
            /\ resolveHostnameCalls' = resolveHostnameCalls
            /\ createPoolCalls' = createPoolCalls
            /\ startup' = startup
            /\ PoolIdentity(ipv4Pool') = PoolIdentity(ipv4Pool)
            /\ PoolIdentity(ipv6Pool') = PoolIdentity(ipv6Pool)]_vars

(* The process has exited on SIGINT after answering a test request, both   *)
(* pools ended.                                                            *)
C10_Witness ==
    /\ variant = "pool"
    /\ proc = "exited"
    /\ exitCode = 0
    /\ ipv4Pool.ended /\ ipv6Pool.ended
    /\ \E rq \in Requests : rq.kind \in TestKinds /\ rq.response.sent

(* The liveness query and the server-identity query, as the variant's      *)
(* testConnection issues them, and the calls that obtain or give up a      *)
(* connection.                                                             *)
FirstQuery == IF variant = "pool" THEN "query1" ELSE "execute1"
SecondQuery == IF variant = "pool" THEN "query2" ELSE "execute2"
ConnectionCalls == {"getConnection", "createConnection", "release", "end"}

(* C11: within one probe each query is issued at most once; the            *)
(* server-identity query is issued only after the liveness query completed *)
(* successfully, with no connection obtained or given up in between; when  *)
(* the first query failed the second is never issued; the result is        *)
(* Success only if both queries succeeded and Failure when either failed.  *)
C11_QueriesInSequence ==
    \A rq \in Requests : \A f \in ProbedFamilies(rq.kind) :
        LET p == rq.probe[f]
            i1 == IndexOf(p.log, FirstQuery)
            i2 == IndexOf(p.log, SecondQuery)
        IN
        /\ Count(p.log, FirstQuery) <= 1
        /\ Count(p.log, SecondQuery) <= 1
        /\ i2 > 0 =>
              /\ Saw(p, FirstQuery, "ok")
              /\ 0 < i1 /\ i1 < i2
              /\ \A i \in i1..i2 : p.log[i] \notin ConnectionCalls
        /\ Saw(p, FirstQuery, "fail") =>
              /\ i2 = 0
              /\ p.result.tag = "failure"
        /\ Saw(p, SecondQuery, "fail") => p.result.tag = "failure"
        /\ p.result.tag = "success" =>
              /\ Saw(p, FirstQuery, "ok")
              /\ Saw(p, SecondQuery, "ok")
        /\ (variant = "pool" /\ Saw(p, FirstQuery, "ok") /\ Saw(p, SecondQuery, "ok")) =>
              p.result = Success

(* One-shot dualstack: the IPv4 probe's first query failed and its second  *)
(* was never issued, the IPv6 probe ran both queries and succeeded.        *)
C11_Witness ==
    \E rq \in Requests :
        /\ variant = "oneshot"
        /\ rq.kind = "dualstack"
        /\ Saw(rq.probe["IPv4"], "execute1", "fail")
        /\ Count(rq.probe["IPv4"].log, "execute2") = 0
        /\ rq.probe["IPv4"].result = Failure("execute1")
        /\ Saw(rq.probe["IPv6"], "execute2", "ok")
        /\ rq.probe["IPv6"].result = Success

(* What a probe's own I/O completions make of its result. *)
OwnOutcome(p) ==
    IF FailedIo(p) THEN Failure(ErrorMessage(p.io[Len(p.io)])) ELSE Success

(* C12: in a dualstack request the two probes are launched together,       *)
(* before either has seen an I/O completion; whatever order the two        *)
(* probes' completions interleave in, each probe's result is what its own  *)
(* I/O completions make of it, and the response holds the IPv4 probe's     *)
(* result under ipv4 and the IPv6 probe's under ipv6.                      *)
C12_OrderIndependent ==
    \A rq \in Requests :
        rq.kind = "dualstack" =>
            /\ ProbeStarted(rq.probe["IPv4"]) <=> ProbeStarted(rq.probe["IPv6"])
            /\ \A f \in Families :
                  /\ Len(rq.probe[f].io) > 0 =>
                        \A g \in Families :
                            /\ ProbeStarted(rq.probe[g])
                            /\ Len(rq.probe[g].log) > 0
                  /\ ProbeSettled(rq.probe[f]) =>
                        rq.probe[f].result = OwnOutcome(rq.probe[f])
                  /\ (rq.response.sent /\ PastCheck(rq)) =>
                        /\ ProbeSettled(rq.probe[f])
                        /\ rq.response.testResult[f] = OwnOutcome(rq.probe[f])

(* Pool variant, dualstack: both probes have been launched, the IPv6 probe *)
(* has already succeeded while the IPv4 probe has seen no completion yet.  *)
C12_Witness ==
    \E rq \in Requests :
        /\ variant = "pool"
        /\ rq.kind = "dualstack"
        /\ rq.probe["IPv6"].result = Success
        /\ rq.probe["IPv4"].pc = "getConnection"
        /\ Len(rq.probe["IPv4"].io) = 0
        /\ ~rq.response.sent

(* C13: one-shot variant: a probe calls mysql.createConnection only after  *)
(* its socket check has completed with 'connect', and the socket connect   *)
(* is the first thing it does; when the check timed out or errored,        *)
(* createConnection is never called and the probe is fulfilled with the    *)
(* Failure carrying the transport error's message.                         *)
C13_SocketCheckFirst ==
    variant = "oneshot" =>
        \A rq \in Requests : \A f \in ProbedFamilies(rq.kind) :
            LET p == rq.probe[f] IN
            /\ ProbeStarted(p) => p.log[1] = "socket.connect"
            /\ Count(p.log, "createConnection") > 0 =>
                  /\ p.io[1] = <<"socket", "connect">>
                  /\ IndexOf(p.log, "socket.connect") < IndexOf(p.log, "createConnection")
            /\ \A ev \in {"timeout", "error"} :
                  Saw(p, "socket", ev) =>
                      /\ Count(p.log, "createConnection") = 0
                      /\ ~Saw(p, "createConnection", "ok")
                      /\ ~Saw(p, "createConnection", "fail")
                      /\ p.promise = "fulfilled"
                      /\ p.result = Failure(IF ev = "timeout"
                                            THEN "Connection timed out"
                                            ELSE "socket error")

(* A probe whose socket check errored: no createConnection, and the        *)
(* Failure with the socket error's message is in the response.             *)
C13_Witness ==
    \E rq \in Requests : \E f \in ProbedFamilies(rq.kind) :
        /\ variant = "oneshot"
        /\ Saw(rq.probe[f], "socket", "error")
        /\ rq.probe[f].log = <<"socket.connect", "resolve">>
        /\ rq.response.sent
        /\ rq.response.testResult[f] = Failure("socket error")

(* The calls that attempt a connection. *)
AttemptCalls == {"getConnection", "createConnection", "socket.connect"}

(* C14: a test request attempts each kind of connection at most once per   *)
(* probed family and nothing for a family it does not probe; every         *)
(* operation of a probe completes at most once, and a failed completion is *)
(* the probe's last; one-shot variant: resolveHostname has been called     *)
(* once per test request, and a probe starts only after that call has      *)
(* returned with both lookups settled.                                     *)
C14_NoRetries ==
    /\ \A rq \in Requests : \A f \in Families :
          LET p == rq.probe[f] IN
          /\ f \notin ProbedFamilies(rq.kind) => p = IdleProbe
          /\ \A c \in AttemptCalls : Count(p.log, c) <= 1
          /\ Count(p.log, "getConnection") = 1 => variant = "pool"
          /\ Count(p.log, "createConnection") + Count(p.log, "socket.connect") > 0 =>
                variant = "oneshot"
          /\ \A i, j \in DOMAIN p.io : p.io[i][1] = p.io[j][1] => i = j
          /\ \A i \in DOMAIN p.io :
                p.io[i][2] \notin GoodOutcomes => (i = Len(p.io) /\ p.pc = "done")
          /\ (variant = "oneshot" /\ ProbeStarted(p)) =>
                /\ rq.resolution.st = "returned"
                /\ rq.dns4.st = "gone"
                /\ rq.dns6.st = "gone"
    /\ variant = "oneshot" =>
          /\ resolveHostnameCalls = TestsReceived
          /\ \A rq \in Requests :
                rq.kind \in TestKinds => (rq.dns4.st # "idle" /\ rq.dns6.st # "idle")

(* One-shot /test-connections/ipv4 answered after one resolution, one      *)
(* socket connect and one failed createConnection.                         *)
C14_Witness ==
    \E rq \in Requests :
        /\ variant = "oneshot"
        /\ rq.kind = "ipv4"
        /\ rq.resolution.st = "returned"
        /\ rq.probe["IPv4"].log =
              <<"socket.connect", "socket.end", "createConnection", "resolve">>
        /\ Saw(rq.probe["IPv4"], "createConnection", "fail")
        /\ rq.response.sent
        /\ resolveHostnameCalls = 1

(* A request a handler has run for. *)
Handled(rq) == rq.pc # "refused"

(* C15: pool variant: the process listens only once the startup resolution *)
(* has returned and both pools have been created; whenever a request has   *)
(* been handled both ipv4Pool and ipv6Pool are non-null, every test        *)
(* request handled got past the pool check, and no response is the 'pool   *)
(* not initialized' 500; when startup failed the process has exited with   *)
(* code 1 and every request it ever got was refused.                       *)
C15_ListensAfterPools ==
    variant = "pool" =>
        /\ Listening =>
              /\ startup.resolution.st = "returned"
              /\ ~ipv4Pool.null
              /\ ~ipv6Pool.null
        /\ \A rq \in Requests :
              /\ Handled(rq) =>
                    /\ startup.resolution.st = "returned"
                    /\ ~ipv4Pool.null
                    /\ ~ipv6Pool.null
              /\ (Handled(rq) /\ rq.kind \in TestKinds) =>
                    /\ \A f \in ProbedFamilies(rq.kind) : ProbeStarted(rq.probe[f])
                    /\ rq.response.http # 500
              /\ rq.response.error # "pool not initialized"
        /\ startup.resolution.st = "threw" => (proc = "exited" /\ exitCode = 1)
        /\ (startup.resolution.st = "returned" /\ (ipv4Pool.null \/ ipv6Pool.null)) =>
              (proc = "exited" /\ exitCode = 1)
        /\ exitCode = 1 => \A rq \in Requests : ~Handled(rq)

(* Pool variant: a dualstack request is being handled, both pools exist,   *)
(* next to a request that was refused during startup.                      *)
C15_Witness ==
    /\ variant = "pool"
    /\ Listening
    /\ ~ipv4Pool.null /\ ~ipv6Pool.null
    /\ \E rq \in Requests : rq.kind = "dualstack" /\ rq.pc = "probing"
    /\ \E rq \in Requests : rq.kind \in TestKinds /\ rq.pc = "refused"

===========================================================================
